---- MODULE Spec2Model ----
(***************************************************************************)
(* RFID attendance terminal (Arduino Mega 2560), sketch version 1.1:       *)
(* src/sketch_mar4a.ino lines 360-607.  One action, Loop, is one execution *)
(* of loop(): it reads millis() once and runs the six sections of the body *)
(* in order (button, countdown, LED off, RFID cooldown, RFID reading,      *)
(* 7-segment refresh).  The downstream logger (arduino_logger_db.py) is    *)
(* not part of the sources; it is modelled from its documented contract.   *)
(***************************************************************************)
EXTENDS Integers, Sequences, FiniteSets, TLC

(* ------------------------------ bounds --------------------------------- *)

\* Length of the explored run, in milliseconds of uptime.
MaxTime == 2500

\* Uptime up to which iterations a few milliseconds apart are explored.
MaxPollTime == 150

\* Sessions started up to this uptime are followed to their end.
LiveStartBy == 500

\* Milliseconds before the wrap of millis() at which the observation starts.
WrapLead == 1000

\* Session length in seconds.  The sketch sets 5700 (95 min); the model runs
\* a short session so that its expiry lies within MaxTime.
initialCountdownSeconds == 2

\* millis() and every stored timestamp are unsigned long and subtraction
\* wraps.  On the AVR target the type is 32 bits wide; TLC's integers end at
\* 2^31 - 1, so the model's counter wraps at 2^30 instead.
ClockModulus == 1073741824

(* ------------------------- program constants --------------------------- *)

countdownInterval == 1000
ledBlinkDuration == 500
rfidPauseDuration == 1000
refreshInterval == 1
rfidCheckInterval == 75
numCards == 4

LOW == FALSE
HIGH == TRUE

\* String authorizedUIDs[numCards] / names[numCards]: three initialisers for
\* four slots, the fourth String is default-constructed (empty).
authorizedUIDs ==
  [i \in 0..(numCards - 1) |->
     <<"51 249 205 166", "12 34 56 78", "19 106 123 19", "">>[i + 1]]

names ==
  [i \in 0..(numCards - 1) |->
     <<"Alice", "Charlie", "TestchipJB", "">>[i + 1]]

(* ----------------------------- environment ----------------------------- *)

\* Time between the millis() reads of two consecutive iterations: none (the
\* loop runs several times per millisecond when idle), or one of the periods.
Steps == {0, ledBlinkDuration, countdownInterval}

\* UIDs (mfrc522.uid.uidByte, uid.size = 4) of the cards held to the reader:
\* two registered cards and one that is not in authorizedUIDs.
CardUIDs == { <<51, 249, 205, 166>>, <<12, 34, 56, 78>>, <<131, 157, 186, 6>> }

\* What the reader answers when it is interrogated: PICC_IsNewCardPresent(),
\* PICC_ReadCardSerial() and, when both succeed, the UID bytes.
NoCard == [present |-> FALSE, readOk |-> FALSE, uid |-> <<>>]
ReadFail == [present |-> TRUE, readOk |-> FALSE, uid |-> <<>>]
ReaderInputs ==
  {NoCard, ReadFail} \cup {[present |-> TRUE, readOk |-> TRUE, uid |-> u] : u \in CardUIDs}

(* ------------------------------- state --------------------------------- *)

VARIABLES
  now,                      \* millis() as read by the latest iteration
  uptime,                   \* milliseconds since power-on (does not wrap)
  previousCountdownMillis,
  remainingSeconds,
  ledOffMillis,
  rfidCooldownMillis,
  previousRefreshMillis,
  previousRfidCheckMillis,
  greenLedState,
  redLedState,
  rfidReady,
  countdownStarted,
  buttonWasPressed,
  insideSession,
  lcd,                      \* the two rows of the text display
  sevseg,                   \* number or "----" shown on the 7-segment display
  serialOut,                \* lines written to Serial by the latest iteration
  presented,                \* reader input offered to the latest iteration
  polled,                   \* the latest iteration interrogated the reader
  outcome,                  \* "None", "Login", "Logout" or "Unauthorized"
  readUid,                  \* uidString of the card read by the latest iteration
  edge,                     \* the latest iteration sampled a rising button edge
  sampled,                  \* button level sampled by the latest iteration
  heldSinceActive,          \* sampled active in every iteration since one that began Active
  lastPoll,                 \* uptime of the latest reader interrogation, -1 before
  blocked,                  \* milliseconds the latest iteration spent in delay()
  tickAt,                   \* uptime when previousCountdownMillis was last written
  refreshAt,                \* uptime when previousRefreshMillis was last written
  feed,                     \* Serial lines since the latest NEW_SESSION (inclusive)
  sessionScans,             \* uidStrings read since the latest session start
  expired,                  \* the latest iteration went from Active to Idle
  insideBefore,             \* insideSession when the latest iteration began
  lastRead,                 \* uptime of the latest card read, -1 before
  sessionStart,             \* uptime of the latest session start, -1 before
  sessionExpiries,          \* Active -> Idle transitions since that start
  store                     \* the logger's table of names

vars ==
  <<now, uptime, previousCountdownMillis, remainingSeconds, ledOffMillis,
    rfidCooldownMillis, previousRefreshMillis, previousRfidCheckMillis,
    greenLedState, redLedState, rfidReady, countdownStarted, buttonWasPressed,
    insideSession, lcd, sevseg, serialOut, presented, polled, outcome, readUid,
    edge, sampled, heldSinceActive, lastPoll, expired, feed, sessionScans, insideBefore,
    lastRead, blocked, tickAt, refreshAt,
    sessionStart, sessionExpiries, store>>

(* ------------------------------ helpers -------------------------------- *)

\* Variant: the difference is taken without the wrap of unsigned long.
Elapsed_Signed(currentMillis, last) == currentMillis - last

\* currentMillis - last on unsigned long.
Elapsed(currentMillis, last) == (currentMillis - last) % ClockModulus

\* minutes * 100 + seconds, the value handed to sevseg.setNumber(.., 2).
TimeNumber(seconds) == (seconds \div 60) * 100 + (seconds % 60)

\* The uidString loop: String(uidByte[i], DEC) joined by single spaces.
\* trim() has nothing to remove: the loop adds no leading or trailing space.
RECURSIVE UidString(_)
UidString(bytes) ==
  IF Len(bytes) = 0 THEN ""
  ELSE IF Len(bytes) = 1 THEN ToString(bytes[1])
  ELSE ToString(bytes[1]) \o " " \o UidString(Tail(bytes))

RECURSIVE IndexFrom(_, _)
IndexFrom(uid, i) ==
  IF i >= numCards THEN -1
  ELSE IF uid = authorizedUIDs[i] THEN i
  ELSE IndexFrom(uid, i + 1)

getIndexFromUID(uid) == IndexFrom(uid, 0)

\* Variant: the loop starts at index 1.
resetInsideSession_FromOne(s) ==
  [s EXCEPT !.insideSession =
     [i \in 0..(numCards - 1) |-> IF i >= 1 THEN FALSE ELSE s.insideSession[i]]]

resetInsideSession(s) ==
  [s EXCEPT !.insideSession = [i \in 0..(numCards - 1) |-> FALSE]]

ReadyPrompt == <<"System Ready", "Press button...">>

\* What the 7-segment display was last told to show.
setChars(c) == [kind |-> "chars", chars |-> c, number |-> 0]
setNumber(n) == [kind |-> "number", chars |-> "", number |-> n]

(* ----------------------- the sections of loop() ------------------------ *)
\* Each section maps the record s of the globals (and of what the iteration
\* has written so far) to the record after the section.

\* Variant: delay() returns at once.
delay_Skipped(s, ms) == s

\* delay(ms): the iteration waits, the clock runs on.
delay(s, ms) == [s EXCEPT !.blocked = @ + ms]

\* Variant: the start writes nothing to Serial.
StartSession_Silent(s, currentMillis) ==
  [resetInsideSession(delay(s, 5)) EXCEPT
     !.countdownStarted = TRUE,
     !.remainingSeconds = initialCountdownSeconds,
     !.previousCountdownMillis = currentMillis,
     !.lcd = <<"Countdown Laeuft", "           ">>,
     !.sevseg = setNumber(TimeNumber(initialCountdownSeconds))]

\* Button Logic: start a session on a press edge while no countdown runs.
StartSession(s, currentMillis) ==
  [resetInsideSession(delay(s, 5)) EXCEPT
     !.countdownStarted = TRUE,
     !.remainingSeconds = initialCountdownSeconds,
     !.previousCountdownMillis = currentMillis,
     !.serialOut = Append(@, "NEW_SESSION"),
     !.lcd = <<"Countdown Laeuft", "           ">>,
     !.sevseg = setNumber(TimeNumber(initialCountdownSeconds))]

\* Variant: the level is remembered only while no countdown runs.
ButtonLogic_RemembersWhileIdle(s, currentMillis, buttonIsPressed) ==
  LET t == IF buttonIsPressed /\ ~s.buttonWasPressed /\ ~s.countdownStarted
           THEN StartSession(s, currentMillis)
           ELSE s
  IN [t EXCEPT !.buttonWasPressed = IF s.countdownStarted THEN @ ELSE buttonIsPressed,
               !.edge = buttonIsPressed /\ ~s.buttonWasPressed]

\* Variant: the condition lacks !countdownStarted.
ButtonLogic_NoActiveGuard(s, currentMillis, buttonIsPressed) ==
  LET t == IF buttonIsPressed /\ ~s.buttonWasPressed
           THEN StartSession(s, currentMillis)
           ELSE s
  IN [t EXCEPT !.buttonWasPressed = buttonIsPressed,
               !.edge = buttonIsPressed /\ ~s.buttonWasPressed]

\* Variant: the condition lacks !buttonWasPressed.
ButtonLogic_LevelTriggered(s, currentMillis, buttonIsPressed) ==
  LET t == IF buttonIsPressed /\ ~s.countdownStarted
           THEN StartSession(s, currentMillis)
           ELSE s
  IN [t EXCEPT !.buttonWasPressed = buttonIsPressed,
               !.edge = buttonIsPressed /\ ~s.buttonWasPressed]

ButtonLogic(s, currentMillis, buttonIsPressed) ==
  LET t == IF buttonIsPressed /\ ~s.buttonWasPressed /\ ~s.countdownStarted
           THEN StartSession(s, currentMillis)
           ELSE s
  IN [t EXCEPT !.buttonWasPressed = buttonIsPressed,
               !.edge = buttonIsPressed /\ ~s.buttonWasPressed]

\* Variant: the tick shows the value remainingSeconds had before it.
CountdownTick_StaleReadout(s, currentMillis) ==
  [s EXCEPT !.previousCountdownMillis = currentMillis,
            !.ticked = TRUE,
            !.remainingSeconds = @ - 1,
            !.sevseg = setNumber(TimeNumber(s.remainingSeconds))]

\* Variant: the tick moves the timestamp on by one interval.
CountdownTick_AdvanceByInterval(s, currentMillis) ==
  [s EXCEPT !.previousCountdownMillis = (@ + countdownInterval) % ClockModulus,
            !.ticked = TRUE,
            !.remainingSeconds = @ - 1,
            !.sevseg = setNumber(TimeNumber(s.remainingSeconds - 1))]

\* Variant: the tick does not store the timestamp.
CountdownTick_NoStamp(s, currentMillis) ==
  [s EXCEPT !.ticked = TRUE,
            !.remainingSeconds = @ - 1,
            !.sevseg = setNumber(TimeNumber(s.remainingSeconds - 1))]

\* Variant: the tick leaves remainingSeconds as it is.
CountdownTick_NoDecrement(s, currentMillis) ==
  [s EXCEPT !.previousCountdownMillis = currentMillis,
            !.ticked = TRUE,
            !.sevseg = setNumber(TimeNumber(s.remainingSeconds))]

\* Countdown, first branch: one second has passed and time is remaining.
CountdownTick(s, currentMillis) ==
  [s EXCEPT !.previousCountdownMillis = currentMillis,
            !.ticked = TRUE,
            !.remainingSeconds = @ - 1,
            !.sevseg = setNumber(TimeNumber(s.remainingSeconds - 1))]

\* Variant: the second branch also calls resetInsideSession().
CountdownExpire_ClearsFlags(s) ==
  [resetInsideSession(delay(s, 5)) EXCEPT
     !.sevseg = setChars("----"),
     !.countdownStarted = FALSE,
     !.lcd = ReadyPrompt,
     !.expired = TRUE]

\* Countdown, second branch: the countdown has run out, back to idle.
CountdownExpire(s) ==
  [delay(s, 5) EXCEPT !.sevseg = setChars("----"),
            !.countdownStarted = FALSE,
            !.lcd = ReadyPrompt,
            !.expired = TRUE]

\* Variant: the second branch tests remainingSeconds <= 1.
Countdown_ExpireEarly(s, currentMillis) ==
  IF /\ s.countdownStarted
     /\ Elapsed(currentMillis, s.previousCountdownMillis) >= countdownInterval
     /\ s.remainingSeconds > 0
  THEN CountdownTick(s, currentMillis)
  ELSE IF s.countdownStarted /\ s.remainingSeconds <= 1
  THEN CountdownExpire(s)
  ELSE s

\* Variant: the first branch lacks countdownStarted.
Countdown_TickWhileIdle(s, currentMillis) ==
  IF /\ Elapsed(currentMillis, s.previousCountdownMillis) >= countdownInterval
     /\ s.remainingSeconds > 0
  THEN CountdownTick(s, currentMillis)
  ELSE IF s.countdownStarted /\ s.remainingSeconds <= 0
  THEN CountdownExpire(s)
  ELSE s

\* Variant: the first branch lacks remainingSeconds > 0.
Countdown_NoPositiveGuard(s, currentMillis) ==
  IF /\ s.countdownStarted
     /\ Elapsed(currentMillis, s.previousCountdownMillis) >= countdownInterval
  THEN CountdownTick(s, currentMillis)
  ELSE IF s.countdownStarted /\ s.remainingSeconds <= 0
  THEN CountdownExpire(s)
  ELSE s

Countdown(s, currentMillis) ==
  IF /\ s.countdownStarted
     /\ Elapsed(currentMillis, s.previousCountdownMillis) >= countdownInterval
     /\ s.remainingSeconds > 0
  THEN CountdownTick(s, currentMillis)
  ELSE IF s.countdownStarted /\ s.remainingSeconds <= 0
  THEN CountdownExpire(s)
  ELSE s

\* Variant: the LEDs stay on for longer than the cooldown lasts.
LedOff_LongPulse(s, currentMillis) ==
  LET g == IF s.greenLedState = HIGH
              /\ Elapsed(currentMillis, s.ledOffMillis) >= rfidPauseDuration + ledBlinkDuration
           THEN [s EXCEPT !.greenLedState = LOW]
           ELSE s
  IN IF g.redLedState = HIGH
        /\ Elapsed(currentMillis, g.ledOffMillis) >= rfidPauseDuration + ledBlinkDuration
     THEN [g EXCEPT !.redLedState = LOW]
     ELSE g

\* Variant: the blink duration is compared with > in place of >=.
LedOff_Strict(s, currentMillis) ==
  LET g == IF s.greenLedState = HIGH
              /\ Elapsed(currentMillis, s.ledOffMillis) > ledBlinkDuration
           THEN [s EXCEPT !.greenLedState = LOW]
           ELSE s
  IN IF g.redLedState = HIGH
        /\ Elapsed(currentMillis, g.ledOffMillis) > ledBlinkDuration
     THEN [g EXCEPT !.redLedState = LOW]
     ELSE g

\* LED Off Timing.
LedOff(s, currentMillis) ==
  LET g == IF s.greenLedState = HIGH
              /\ Elapsed(currentMillis, s.ledOffMillis) >= ledBlinkDuration
           THEN [s EXCEPT !.greenLedState = LOW]
           ELSE s
  IN IF g.redLedState = HIGH
        /\ Elapsed(currentMillis, g.ledOffMillis) >= ledBlinkDuration
     THEN [g EXCEPT !.redLedState = LOW]
     ELSE g

\* Variant: the end of the cooldown leaves the LCD as it is.
RfidCooldown_NoPrompt(s, currentMillis) ==
  IF ~s.rfidReady /\ Elapsed(currentMillis, s.rfidCooldownMillis) >= rfidPauseDuration
  THEN [s EXCEPT !.rfidReady = TRUE]
  ELSE s

\* Variant: the end of the cooldown while the countdown runs puts the
\* session message back on the LCD.
RfidCooldown_RestoresRunning(s, currentMillis) ==
  IF ~s.rfidReady /\ Elapsed(currentMillis, s.rfidCooldownMillis) >= rfidPauseDuration
  THEN IF ~s.countdownStarted
       THEN delay([s EXCEPT !.rfidReady = TRUE, !.lcd = ReadyPrompt], 5)
       ELSE delay([s EXCEPT !.rfidReady = TRUE,
                            !.lcd = <<"Countdown Laeuft", "           ">>], 5)
  ELSE s

\* Variant: the cooldown section does nothing.
RfidCooldown_Stuck(s, currentMillis) == s

\* Variant: the end of the cooldown also calls resetInsideSession().
RfidCooldown_ClearsFlags(s, currentMillis) ==
  IF ~s.rfidReady /\ Elapsed(currentMillis, s.rfidCooldownMillis) >= rfidPauseDuration
  THEN IF ~s.countdownStarted
       THEN delay([resetInsideSession(s) EXCEPT !.rfidReady = TRUE, !.lcd = ReadyPrompt], 5)
       ELSE [resetInsideSession(s) EXCEPT !.rfidReady = TRUE]
  ELSE s

\* RFID Cooldown.
RfidCooldown(s, currentMillis) ==
  IF ~s.rfidReady /\ Elapsed(currentMillis, s.rfidCooldownMillis) >= rfidPauseDuration
  THEN IF ~s.countdownStarted
       THEN delay([s EXCEPT !.rfidReady = TRUE, !.lcd = ReadyPrompt], 5)
       ELSE [s EXCEPT !.rfidReady = TRUE]
  ELSE s

\* Variant: the Login branch writes nothing to Serial.
Login_NoLine(s, currentMillis, idx, uidString) ==
  [s EXCEPT !.insideSession[idx] = TRUE,
            !.lcd = <<"Willkommen", names[idx]>>,
            !.greenLedState = HIGH,
            !.redLedState = LOW,
            !.ledOffMillis = currentMillis,
            !.outcome = "Login"]

\* Variant: the Login branch sets the flag of every card.
Login_AllInside(s, currentMillis, idx, uidString) ==
  [s EXCEPT !.insideSession = [i \in 0..(numCards - 1) |-> TRUE],
            !.lcd = <<"Willkommen", names[idx]>>,
            !.greenLedState = HIGH,
            !.redLedState = LOW,
            !.ledOffMillis = currentMillis,
            !.serialOut = Append(@, "LOGIN:" \o uidString \o "," \o names[idx]),
            !.outcome = "Login"]

\* Variant: the Login branch takes the name of the first registry entry.
Login_FirstName(s, currentMillis, idx, uidString) ==
  [s EXCEPT !.insideSession[idx] = TRUE,
            !.lcd = <<"Willkommen", names[0]>>,
            !.greenLedState = HIGH,
            !.redLedState = LOW,
            !.ledOffMillis = currentMillis,
            !.serialOut = Append(@, "LOGIN:" \o uidString \o "," \o names[0]),
            !.outcome = "Login"]

\* RFID Reading, Login branch (first presentation).
Login(s, currentMillis, idx, uidString) ==
  [s EXCEPT !.insideSession[idx] = TRUE,
            !.lcd = <<"Willkommen", names[idx]>>,
            !.greenLedState = HIGH,
            !.redLedState = LOW,
            !.ledOffMillis = currentMillis,
            !.serialOut = Append(@, "LOGIN:" \o uidString \o "," \o names[idx]),
            !.outcome = "Login"]

\* Variant: the Logout branch leaves the flag set.
Logout_StayInside(s, currentMillis, idx, uidString) ==
  [s EXCEPT !.lcd = <<"Auf Wiedersehen", names[idx]>>,
            !.greenLedState = HIGH,
            !.redLedState = LOW,
            !.ledOffMillis = currentMillis,
            !.serialOut = Append(@, "LOGOUT:" \o uidString \o "," \o names[idx]),
            !.outcome = "Logout"]

\* Variant: the Logout branch also stops the countdown.
Logout_EndsSession(s, currentMillis, idx, uidString) ==
  [s EXCEPT !.insideSession[idx] = FALSE,
            !.countdownStarted = FALSE,
            !.lcd = <<"Auf Wiedersehen", names[idx]>>,
            !.greenLedState = HIGH,
            !.redLedState = LOW,
            !.ledOffMillis = currentMillis,
            !.serialOut = Append(@, "LOGOUT:" \o uidString \o "," \o names[idx]),
            !.outcome = "Logout"]

\* Variant: the Logout branch lights the red LED.
Logout_RedLed(s, currentMillis, idx, uidString) ==
  [s EXCEPT !.insideSession[idx] = FALSE,
            !.lcd = <<"Auf Wiedersehen", names[idx]>>,
            !.greenLedState = LOW,
            !.redLedState = HIGH,
            !.ledOffMillis = currentMillis,
            !.serialOut = Append(@, "LOGOUT:" \o uidString \o "," \o names[idx]),
            !.outcome = "Logout"]

\* RFID Reading, Logout branch (second presentation).
Logout(s, currentMillis, idx, uidString) ==
  [s EXCEPT !.insideSession[idx] = FALSE,
            !.lcd = <<"Auf Wiedersehen", names[idx]>>,
            !.greenLedState = HIGH,
            !.redLedState = LOW,
            !.ledOffMillis = currentMillis,
            !.serialOut = Append(@, "LOGOUT:" \o uidString \o "," \o names[idx]),
            !.outcome = "Logout"]

\* Variant: the Unknown Card branch also writes a log line.
UnknownCard_Logged(s, currentMillis) ==
  [s EXCEPT !.lcd = <<"Karte ungueltig", "           ">>,
            !.redLedState = HIGH,
            !.greenLedState = LOW,
            !.ledOffMillis = currentMillis,
            !.serialOut = Append(@, "LOGIN:" \o s.readUid \o "," \o "Unbekannt"),
            !.outcome = "Unauthorized"]

\* RFID Reading, Unknown Card branch.
UnknownCard(s, currentMillis) ==
  [s EXCEPT !.lcd = <<"Karte ungueltig", "           ">>,
            !.redLedState = HIGH,
            !.greenLedState = LOW,
            !.ledOffMillis = currentMillis,
            !.outcome = "Unauthorized"]

\* Variant: only a registered card starts the cooldown.
CardRead_CooldownIfKnown(s, currentMillis, uidBytes) ==
  LET uidString == UidString(uidBytes)
      idx == getIndexFromUID(uidString)
      r == [s EXCEPT !.readUid = uidString]
      t == [r EXCEPT !.rfidReady = FALSE,
                     !.rfidCooldownMillis = currentMillis]
  IN delay(IF idx # -1
           THEN IF ~t.insideSession[idx]
                THEN Login(t, currentMillis, idx, uidString)
                ELSE Logout(t, currentMillis, idx, uidString)
           ELSE UnknownCard(r, currentMillis), 5)

\* Variant: the cooldown timestamp is taken from millis() anew, after the
\* delays of the iteration so far.
CardRead_RereadsClock(s, currentMillis, uidBytes) ==
  LET uidString == UidString(uidBytes)
      idx == getIndexFromUID(uidString)
      t == [s EXCEPT !.rfidReady = FALSE,
                     !.rfidCooldownMillis = (currentMillis + s.blocked) % ClockModulus,
                     !.readUid = uidString]
  IN delay(IF idx # -1
           THEN IF ~t.insideSession[idx]
                THEN Login(t, currentMillis, idx, uidString)
                ELSE Logout(t, currentMillis, idx, uidString)
           ELSE UnknownCard(t, currentMillis), 5)

\* RFID Reading, a card was detected and its serial read.
CardRead(s, currentMillis, uidBytes) ==
  LET uidString == UidString(uidBytes)
      idx == getIndexFromUID(uidString)
      t == [s EXCEPT !.rfidReady = FALSE,
                     !.rfidCooldownMillis = currentMillis,
                     !.readUid = uidString]
  IN delay(IF idx # -1
           THEN IF ~t.insideSession[idx]
                THEN Login(t, currentMillis, idx, uidString)
                ELSE Logout(t, currentMillis, idx, uidString)
           ELSE UnknownCard(t, currentMillis), 5)

\* Variant: the timestamp of the check is stored also while the reader is in
\* cooldown.
RfidReading_StampsInCooldown(s, currentMillis, rd) ==
  IF Elapsed(currentMillis, s.previousRfidCheckMillis) >= rfidCheckInterval
  THEN IF s.rfidReady
       THEN LET t == [s EXCEPT !.previousRfidCheckMillis = currentMillis, !.polled = TRUE]
            IN IF rd.present /\ rd.readOk
               THEN CardRead(t, currentMillis, rd.uid)
               ELSE t
       ELSE [s EXCEPT !.previousRfidCheckMillis = currentMillis]
  ELSE s

\* Variant: the condition lacks rfidReady.
RfidReading_IgnoreReady(s, currentMillis, rd) ==
  IF Elapsed(currentMillis, s.previousRfidCheckMillis) >= rfidCheckInterval
  THEN LET t == [s EXCEPT !.previousRfidCheckMillis = currentMillis, !.polled = TRUE]
       IN IF rd.present /\ rd.readOk
          THEN CardRead(t, currentMillis, rd.uid)
          ELSE t
  ELSE s

\* Variant: the check interval is compared with > in place of >=.
RfidReading_StrictInterval(s, currentMillis, rd) ==
  IF s.rfidReady /\ Elapsed(currentMillis, s.previousRfidCheckMillis) > rfidCheckInterval
  THEN LET t == [s EXCEPT !.previousRfidCheckMillis = currentMillis, !.polled = TRUE]
       IN IF rd.present /\ rd.readOk
          THEN CardRead(t, currentMillis, rd.uid)
          ELSE t
  ELSE s

\* Variant: a card whose serial cannot be read is rejected as unknown.
RfidReading_FailRejects(s, currentMillis, rd) ==
  IF s.rfidReady /\ Elapsed(currentMillis, s.previousRfidCheckMillis) >= rfidCheckInterval
  THEN LET t == [s EXCEPT !.previousRfidCheckMillis = currentMillis, !.polled = TRUE]
       IN IF rd.present /\ rd.readOk
          THEN CardRead(t, currentMillis, rd.uid)
          ELSE IF rd.present
          THEN UnknownCard(t, currentMillis)
          ELSE t
  ELSE s

\* Variant: the reader is interrogated only while the countdown runs.
RfidReading_OnlyActive(s, currentMillis, rd) ==
  IF /\ s.countdownStarted
     /\ s.rfidReady
     /\ Elapsed(currentMillis, s.previousRfidCheckMillis) >= rfidCheckInterval
  THEN LET t == [s EXCEPT !.previousRfidCheckMillis = currentMillis, !.polled = TRUE]
       IN IF rd.present /\ rd.readOk
          THEN CardRead(t, currentMillis, rd.uid)
          ELSE t
  ELSE s

RfidReading(s, currentMillis, rd) ==
  IF s.rfidReady /\ Elapsed(currentMillis, s.previousRfidCheckMillis) >= rfidCheckInterval
  THEN LET t == [s EXCEPT !.previousRfidCheckMillis = currentMillis, !.polled = TRUE]
       IN IF rd.present /\ rd.readOk
          THEN CardRead(t, currentMillis, rd.uid)
          ELSE t
  ELSE s

\* 7-Segment Refresh.
Refresh(s, currentMillis) ==
  IF Elapsed(currentMillis, s.previousRefreshMillis) >= refreshInterval
  THEN [s EXCEPT !.previousRefreshMillis = currentMillis, !.refreshed = TRUE]
  ELSE s

\* Variant: RFID Reading comes before the Countdown section.
LoopBody_ReadingFirst(s, currentMillis, buttonIsPressed, rd) ==
  CHOOSE result \in
    { Refresh(afterCooldown, currentMillis) :
        afterCooldown \in
    { RfidCooldown(afterLedOff, currentMillis) :
        afterLedOff \in
    { LedOff(afterCountdown, currentMillis) :
        afterCountdown \in
    { Countdown(afterReading, currentMillis) :
        afterReading \in
    { RfidReading(afterButton, currentMillis, rd) :
        afterButton \in
    { ButtonLogic(globals, currentMillis, buttonIsPressed) :
        globals \in {s} } } } } } } : TRUE

\* The body of loop() for one value of millis() and one sample of the inputs:
\* the sections in the order of the source, each applied to the record the
\* section before it has left.
LoopBody(s, currentMillis, buttonIsPressed, rd) ==
  CHOOSE result \in
    { Refresh(afterReading, currentMillis) :
        afterReading \in
    { RfidReading(afterCooldown, currentMillis, rd) :
        afterCooldown \in
    { RfidCooldown(afterLedOff, currentMillis) :
        afterLedOff \in
    { LedOff(afterCountdown, currentMillis) :
        afterCountdown \in
    { Countdown(afterButton, currentMillis) :
        afterButton \in
    { ButtonLogic(globals, currentMillis, buttonIsPressed) :
        globals \in {s} } } } } } } : TRUE

(* ------------------------------ the logger ----------------------------- *)
\* arduino_logger_db.py, from its contract: NEW_SESSION empties the table, a
\* LOGIN line inserts its name unless the table already holds that name, any
\* other line is ignored.  A row of the table holds the name.

UidStrings == {UidString(u) : u \in CardUIDs}
NameSet == {names[i] : i \in 0..(numCards - 1)}

LoginLines(name) == {"LOGIN:" \o u \o "," \o name : u \in UidStrings}

StoredNames(st) == {st[k].name : k \in 1..Len(st)}

\* Variant: a LOGIN line is inserted without looking for the name.
LoggerReceive_NoLookup(st, line) ==
  IF line = "NEW_SESSION" THEN <<>>
  ELSE IF \E n \in NameSet : line \in LoginLines(n)
  THEN LET n == CHOOSE m \in NameSet : line \in LoginLines(m)
       IN Append(st, [name |-> n])
  ELSE st

LoggerReceive(st, line) ==
  IF line = "NEW_SESSION" THEN <<>>
  ELSE IF \E n \in NameSet : line \in LoginLines(n)
  THEN LET n == CHOOSE m \in NameSet : line \in LoginLines(m)
       IN IF n \in StoredNames(st)
          THEN st
          ELSE Append(st, [name |-> n])
  ELSE st

RECURSIVE LoggerReceiveAll(_, _)
LoggerReceiveAll(st, lines) ==
  IF lines = <<>> THEN st
  ELSE LoggerReceiveAll(LoggerReceive(st, Head(lines)), Tail(lines))

(* ------------------------------ behaviour ------------------------------ *)

\* The globals as a record, with the per-iteration notes cleared.
Globals ==
  [previousCountdownMillis |-> previousCountdownMillis,
   remainingSeconds |-> remainingSeconds,
   ledOffMillis |-> ledOffMillis,
   rfidCooldownMillis |-> rfidCooldownMillis,
   previousRefreshMillis |-> previousRefreshMillis,
   previousRfidCheckMillis |-> previousRfidCheckMillis,
   greenLedState |-> greenLedState,
   redLedState |-> redLedState,
   rfidReady |-> rfidReady,
   countdownStarted |-> countdownStarted,
   buttonWasPressed |-> buttonWasPressed,
   insideSession |-> insideSession,
   lcd |-> lcd,
   sevseg |-> sevseg,
   serialOut |-> <<>>,
   polled |-> FALSE,
   outcome |-> "None",
   readUid |-> "",
   edge |-> FALSE,
   expired |-> FALSE,
   ticked |-> FALSE,
   refreshed |-> FALSE,
   blocked |-> 0]

\* The state with the clock at clock in which nothing has happened yet but
\* iterations that found the button released and no card: the initialisers of
\* the globals (lines 391-430), the prompt on the LCD and "----" on the
\* 7-segment display as setup() leaves them, and stamp in the timestamps of
\* the poll and the refresh, last written at uptime seen.
IdleSince(clock, stamp, seen) ==
  /\ now = clock
  /\ uptime = 0
  /\ previousCountdownMillis = 0
  /\ remainingSeconds = initialCountdownSeconds
  /\ ledOffMillis = 0
  /\ rfidCooldownMillis = 0
  /\ previousRefreshMillis = stamp
  /\ previousRfidCheckMillis = stamp
  /\ greenLedState = LOW
  /\ redLedState = LOW
  /\ rfidReady = TRUE
  /\ countdownStarted = FALSE
  /\ buttonWasPressed = FALSE
  /\ insideSession = [i \in 0..(numCards - 1) |-> FALSE]
  /\ lcd = ReadyPrompt
  /\ sevseg = setChars("----")
  /\ serialOut = <<>>
  /\ presented = NoCard
  /\ polled = FALSE
  /\ outcome = "None"
  /\ readUid = ""
  /\ edge = FALSE
  /\ sampled = FALSE
  /\ heldSinceActive = FALSE
  /\ lastPoll = seen
  /\ blocked = 0
  /\ tickAt = -1
  /\ refreshAt = seen
  /\ expired = FALSE
  /\ feed = <<>>
  /\ sessionScans = <<>>
  /\ insideBefore = insideSession
  /\ lastRead = -1
  /\ sessionStart = -1
  /\ sessionExpiries = 0
  /\ store = <<>>

\* State after setup().
Init == IdleSince(0, 0, -1)

\* One iteration of loop(), d milliseconds after the previous one, explored
\* while the uptime stays within limit.  millis() has advanced at least by
\* the time the previous iteration spent in delay().
IterateWithin(limit, d, buttonIsPressed, rd) ==
  /\ uptime + d <= limit
  /\ d >= blocked
  /\ uptime' = uptime + d
  /\ sampled' = buttonIsPressed
  /\ presented' = rd
  /\ \E t \in {LoopBody(Globals, (now + d) % ClockModulus, buttonIsPressed, rd)} :
       LET currentMillis == (now + d) % ClockModulus
           started == t.serialOut # <<>> /\ Head(t.serialOut) = "NEW_SESSION"
           scan == IF t.outcome = "None" THEN <<>> ELSE <<t.readUid>>
       IN /\ now' = currentMillis
          /\ previousCountdownMillis' = t.previousCountdownMillis
          /\ remainingSeconds' = t.remainingSeconds
          /\ ledOffMillis' = t.ledOffMillis
          /\ rfidCooldownMillis' = t.rfidCooldownMillis
          /\ previousRefreshMillis' = t.previousRefreshMillis
          /\ previousRfidCheckMillis' = t.previousRfidCheckMillis
          /\ greenLedState' = t.greenLedState
          /\ redLedState' = t.redLedState
          /\ rfidReady' = t.rfidReady
          /\ countdownStarted' = t.countdownStarted
          /\ buttonWasPressed' = t.buttonWasPressed
          /\ insideSession' = t.insideSession
          /\ lcd' = t.lcd
          /\ sevseg' = t.sevseg
          /\ serialOut' = t.serialOut
          /\ polled' = t.polled
          /\ outcome' = t.outcome
          /\ readUid' = t.readUid
          /\ edge' = t.edge
          /\ heldSinceActive' = (buttonIsPressed /\ (countdownStarted \/ heldSinceActive))
          /\ lastPoll' = IF t.polled THEN uptime + d ELSE lastPoll
          /\ blocked' = t.blocked
          /\ tickAt' = IF started \/ t.ticked THEN uptime + d ELSE tickAt
          /\ refreshAt' = IF t.refreshed THEN uptime + d ELSE refreshAt
          /\ expired' = t.expired
          /\ feed' = IF started THEN t.serialOut ELSE feed \o t.serialOut
          /\ sessionScans' = IF started THEN scan ELSE sessionScans \o scan
          /\ insideBefore' = insideSession
          /\ lastRead' = IF t.outcome = "None" THEN lastRead ELSE uptime + d
          /\ sessionStart' = IF started THEN uptime + d ELSE sessionStart
          /\ sessionExpiries' = IF started THEN 0
                                ELSE IF t.expired THEN sessionExpiries + 1
                                ELSE sessionExpiries
          /\ store' = LoggerReceiveAll(store, t.serialOut)

Iterate(d, buttonIsPressed, rd) == IterateWithin(MaxTime, d, buttonIsPressed, rd)

Loop == \E d \in Steps, buttonIsPressed \in BOOLEAN, rd \in ReaderInputs :
          Iterate(d, buttonIsPressed, rd)

Next == Loop

Spec == Init /\ [][Next]_vars

(* ------------------------------- claims -------------------------------- *)

Registered == {i \in 0..(numCards - 1) : authorizedUIDs[i] \in UidStrings}

LoginLine(i) == "LOGIN:" \o authorizedUIDs[i] \o "," \o names[i]
LogoutLine(i) == "LOGOUT:" \o authorizedUIDs[i] \o "," \o names[i]

\* Number of entries of the sequence q that equal x.
RECURSIVE Count(_, _)
Count(q, x) ==
  IF q = <<>> THEN 0
  ELSE (IF Head(q) = x THEN 1 ELSE 0) + Count(Tail(q), x)

\* The LOGIN / LOGOUT lines of identity i in the feed, in order.
EventsOf(i) ==
  LET IsOf(line) == line = LoginLine(i) \/ line = LogoutLine(i)
  IN SelectSeq(feed, IsOf)

\* The latest iteration started a session.
Started == serialOut # <<>> /\ Head(serialOut) = "NEW_SESSION"

\* C1: all flags are Outside at power-on and at a session start; after k
\* reads of X's card since then X is Inside exactly if k is odd, and the
\* events emitted for X are k lines that alternate LOGIN, LOGOUT, LOGIN, ...
\* starting with LOGIN.
C1_ScanParity ==
  \A i \in 0..(numCards - 1) :
    LET k == Count(sessionScans, authorizedUIDs[i])
    IN /\ insideSession[i] = (k % 2 = 1)
       /\ EventsOf(i) = [j \in 1..k |-> IF j % 2 = 1 THEN LoginLine(i) ELSE LogoutLine(i)]

C1_Witness ==
  /\ Count(sessionScans, authorizedUIDs[0]) = 3
  /\ insideSession[0]
  /\ EventsOf(0) = <<LoginLine(0), LogoutLine(0), LoginLine(0)>>

\* C2: an iteration that reads a card whose identifier is not in the registry
\* leaves every presence flag as the iteration found it (as the session start
\* of the same iteration left it), writes no LOGIN or LOGOUT line, shows the
\* rejection message and asserts the error indicator only; Idle or Active.
C2_UnknownScan ==
  [][ (presented'.readOk /\ polled'
         /\ getIndexFromUID(UidString(presented'.uid)) = -1)
      => /\ outcome' = "Unauthorized"
         /\ insideSession' = IF ~countdownStarted /\ edge'
                             THEN [i \in 0..(numCards - 1) |-> FALSE]
                             ELSE insideSession
         /\ serialOut' = IF ~countdownStarted /\ edge' THEN <<"NEW_SESSION">> ELSE <<>>
         /\ feed' = IF ~countdownStarted /\ edge' THEN <<"NEW_SESSION">> ELSE feed
         /\ lcd' = <<"Karte ungueltig", "           ">>
         /\ redLedState' = HIGH
         /\ greenLedState' = LOW ]_vars

C2_Witness ==
  /\ outcome = "Unauthorized"
  /\ countdownStarted
  /\ ~Started
  /\ \E i \in Registered : insideSession[i]
  /\ insideSession = insideBefore

\* C3: an iteration that starts a session ends with remaining at the full
\* session length and with every presence flag Outside, whatever the flags
\* were before; only a card read later in that same iteration is Inside
\* (logged in from Outside).
C3_StartResets ==
  [][ (~countdownStarted /\ countdownStarted')
      => /\ remainingSeconds' = initialCountdownSeconds
         /\ \A i \in 0..(numCards - 1) :
              insideSession'[i] = (outcome' = "Login" /\ getIndexFromUID(readUid') = i)
         /\ outcome' # "Logout" ]_vars

C3_Witness ==
  /\ Started
  /\ sessionExpiries = 0
  /\ \E i \in Registered : insideBefore[i]
  /\ \A i \in 0..(numCards - 1) : ~insideSession[i]
  /\ remainingSeconds = initialCountdownSeconds

\* C4: a rising edge sampled while the session is Active changes nothing:
\* the iteration writes no NEW_SESSION and ends with the same remaining,
\* session state, last-tick timestamp and presence flags as it would have
\* with the button sampled released.
C4_EdgeWhileActive ==
  [][ (countdownStarted /\ edge')
      => LET u == LoopBody(Globals, now', FALSE, presented')
         IN /\ remainingSeconds' = u.remainingSeconds
            /\ countdownStarted' = u.countdownStarted
            /\ previousCountdownMillis' = u.previousCountdownMillis
            /\ insideSession' = u.insideSession
            /\ serialOut' = u.serialOut
            /\ \A k \in 1..Len(serialOut') : serialOut'[k] # "NEW_SESSION" ]_vars

C4_Witness ==
  /\ edge
  /\ countdownStarted
  /\ ~Started
  /\ remainingSeconds < initialCountdownSeconds
  /\ \E i \in Registered : insideSession[i]

\* C5 as stated: the Active -> Idle transition happens in the iteration in
\* which remaining reaches zero (remaining is positive when that iteration
\* begins and zero when it ends).
C5_ExpiryInZeroIteration ==
  [][ (countdownStarted /\ ~countdownStarted')
      => (remainingSeconds > 0 /\ remainingSeconds' = 0) ]_vars

\* C5, amended: the Active -> Idle transition happens once per session, in
\* the iteration that directly follows the one in which remaining reached
\* zero: remaining is zero when the transition's iteration begins, it is not
\* decremented further, and no iteration lies between the two.
C5_ExpiryAfterZeroIteration ==
  /\ [](/\ sessionExpiries <= 1
        /\ countdownStarted => sessionExpiries = 0
        /\ (~countdownStarted /\ sessionStart >= 0) => sessionExpiries = 1)
  /\ [][ /\ (countdownStarted /\ ~countdownStarted')
            => (remainingSeconds = 0 /\ remainingSeconds' = 0 /\ expired')
         /\ (countdownStarted /\ remainingSeconds = 0) => ~countdownStarted'
         /\ (countdownStarted' /\ remainingSeconds' = 0)
            => (countdownStarted /\ remainingSeconds = 1) ]_vars

C5_Witness ==
  /\ expired
  /\ ~countdownStarted
  /\ remainingSeconds = 0
  /\ sessionExpiries = 1

\* C6 as stated: while Active, the number of decrements of remaining equals
\* the number of full countdown intervals elapsed since the session start.
C6_OnePerElapsedSecond ==
  countdownStarted
    => initialCountdownSeconds - remainingSeconds
         = (uptime - sessionStart) \div countdownInterval

\* C6, amended: while Active, remaining never increases; an iteration
\* decrements it by one exactly if at least one countdown interval has
\* elapsed since the previous decrement (or the session start) and remaining
\* is positive, and then restarts the interval at that iteration's
\* timestamp; hence the decrements never outnumber the full intervals
\* elapsed since the session start.
C6_AtMostOnePerElapsedSecond ==
  /\ [](countdownStarted
          => (initialCountdownSeconds - remainingSeconds) * countdownInterval
               <= uptime - sessionStart)
  /\ [][ (countdownStarted /\ countdownStarted')
         => IF Elapsed(now', previousCountdownMillis) >= countdownInterval
               /\ remainingSeconds > 0
            THEN remainingSeconds' = remainingSeconds - 1
                 /\ previousCountdownMillis' = now'
            ELSE remainingSeconds' = remainingSeconds
                 /\ previousCountdownMillis' = previousCountdownMillis ]_vars

\* A decrement that comes later than one interval after the session start.
C6_Witness ==
  /\ countdownStarted
  /\ remainingSeconds = initialCountdownSeconds - 1
  /\ previousCountdownMillis = now
  /\ uptime - sessionStart > countdownInterval

\* C7: in an iteration less than the cooldown duration after the latest card
\* read the reader is not interrogated and no card is read; the iteration
\* ends exactly as it would with no card at the reader (no outcome, presence
\* flags, Serial lines, indicators and display as without the card).
C7_CooldownSuspendsReads ==
  [][ (lastRead >= 0 /\ uptime' - lastRead < rfidPauseDuration)
      => /\ ~polled'
         /\ outcome' = "None"
         /\ lastRead' = lastRead
         /\ LET u == LoopBody(Globals, now', buttonWasPressed', NoCard)
            IN /\ insideSession' = u.insideSession
               /\ serialOut' = u.serialOut
               /\ greenLedState' = u.greenLedState
               /\ redLedState' = u.redLedState
               /\ ledOffMillis' = u.ledOffMillis
               /\ lcd' = u.lcd
               /\ rfidReady' = FALSE ]_vars

C7_Witness ==
  /\ presented.present /\ presented.readOk
  /\ getIndexFromUID(UidString(presented.uid)) # -1
  /\ lastRead >= 0
  /\ uptime > lastRead
  /\ uptime - lastRead < rfidPauseDuration
  /\ outcome = "None"

\* C8: after a session start, reading the cards of two registered identities
\* A, B in the order A, B, A writes exactly LOGIN:A, LOGIN:B, LOGOUT:A after
\* NEW_SESSION and ends with A Outside and B Inside; and an iteration that
\* reads a registered card changes no other identity's flag (apart from the
\* reset by a session start in the same iteration).
C8_IndependentFlags ==
  /\ [](\A a, b \in Registered :
          (/\ a # b
           /\ sessionStart >= 0
           /\ sessionScans = <<authorizedUIDs[a], authorizedUIDs[b], authorizedUIDs[a]>>)
          => /\ feed = <<"NEW_SESSION", LoginLine(a), LoginLine(b), LogoutLine(a)>>
             /\ ~insideSession[a]
             /\ insideSession[b]
             /\ \A i \in 0..(numCards - 1) : insideSession[i] <=> i = b)
  /\ [][ (outcome' \in {"Login", "Logout"})
         => \A i \in 0..(numCards - 1) :
              i # getIndexFromUID(readUid')
                => insideSession'[i] = (insideSession[i] /\ ~(~countdownStarted /\ edge')) ]_vars

C8_Witness ==
  /\ sessionStart >= 0
  /\ sessionScans = <<authorizedUIDs[0], authorizedUIDs[1], authorizedUIDs[0]>>
  /\ feed = <<"NEW_SESSION", LoginLine(0), LoginLine(1), LogoutLine(0)>>
  /\ ~insideSession[0]
  /\ insideSession[1]

\* C9: the logger's table never holds two rows with the same name, however
\* often a card is read between two NEW_SESSION lines.
C9_LoggedOncePerSession ==
  \A j, k \in 1..Len(store) : store[j].name = store[k].name => j = k

\* The same identity has logged in twice in one session and has one row.
C9_Witness ==
  /\ sessionStart >= 0
  /\ Count(feed, LoginLine(0)) = 2
  /\ Count([k \in 1..Len(store) |-> store[k].name], names[0]) = 1

\* C10: every read of an authorized card writes the line LOG:<UID>,<Name>
\* to Serial, and a line of that form is written for authorized cards only.
C10_LogLineFormat ==
  /\ outcome \in {"Login", "Logout"}
       => \E k \in 1..Len(serialOut) :
            serialOut[k] = "LOG:" \o readUid \o "," \o names[getIndexFromUID(readUid)]
  /\ outcome \notin {"Login", "Logout"}
       => \A k \in 1..Len(serialOut), u \in UidStrings, n \in NameSet :
            serialOut[k] # "LOG:" \o u \o "," \o n

\* C11: an iteration writes NEW_SESSION once if it takes the session from
\* Idle to Active and not at all otherwise (a press while Active, the expiry
\* and a card read write none); the iteration of the transition also stores
\* the current timestamp as the last tick, puts the full countdown value on
\* the 7-segment display and "Countdown Laeuft" on the LCD, which at the end
\* of the iteration is replaced only by the message of a card read later in
\* that same iteration.
C11_NewSessionOnStart ==
  [][ /\ Count(serialOut', "NEW_SESSION")
           = IF ~countdownStarted /\ countdownStarted' THEN 1 ELSE 0
      /\ Count(feed', "NEW_SESSION")
           = IF ~countdownStarted /\ countdownStarted' THEN 1 ELSE Count(feed, "NEW_SESSION")
      /\ (~countdownStarted /\ countdownStarted')
           => /\ Head(serialOut') = "NEW_SESSION"
              /\ previousCountdownMillis' = now'
              /\ sevseg' = setNumber(TimeNumber(initialCountdownSeconds))
              /\ outcome' = "None" => lcd' = <<"Countdown Laeuft", "           ">>
              /\ outcome' = "Login" => lcd'[1] = "Willkommen"
              /\ outcome' = "Unauthorized" => lcd'[1] = "Karte ungueltig" ]_vars

C11_Witness ==
  /\ Started
  /\ sessionExpiries = 0
  /\ uptime > 0
  /\ outcome = "None"
  /\ previousCountdownMillis = now
  /\ lcd = <<"Countdown Laeuft", "           ">>
  /\ sevseg = setNumber(TimeNumber(initialCountdownSeconds))
  /\ Count(feed, "NEW_SESSION") = 1

\* The lines an iteration wrote to Serial other than NEW_SESSION.
ScanLines(out) == SelectSeq(out, LAMBDA l : l # "NEW_SESSION")

\* C12: an iteration writes a LOGIN line exactly if its card read turned a
\* presence flag from Outside to Inside and a LOGOUT line exactly if it turned
\* one from Inside to Outside; the line is "LOGIN:" or "LOGOUT:" followed by
\* the identifier read, a comma and the name stored at the index the
\* identifier has in the registry, and an iteration that reads a registered
\* card writes exactly one such line; no other iteration writes any, and no
\* other iteration turns a flag to Inside.
C12_EventPerFlagChange ==
  [][ LET start == ~countdownStarted /\ countdownStarted'
          before == IF start THEN [i \in 0..(numCards - 1) |-> FALSE] ELSE insideSession
          idx == getIndexFromUID(readUid')
          matched == outcome' # "None" /\ idx # -1
      IN /\ matched
            => /\ insideSession' = [before EXCEPT ![idx] = ~before[idx]]
               /\ ScanLines(serialOut')
                    = << (IF before[idx] THEN "LOGOUT:" ELSE "LOGIN:")
                           \o UidString(presented'.uid) \o "," \o names[idx] >>
               /\ outcome' = IF before[idx] THEN "Logout" ELSE "Login"
         /\ ~matched
            => /\ insideSession' = before
               /\ ScanLines(serialOut') = <<>> ]_vars

C12_Witness ==
  /\ outcome = "Logout"
  /\ readUid = authorizedUIDs[1]
  /\ insideBefore[1] /\ ~insideSession[1]
  /\ serialOut = <<"LOGOUT:12 34 56 78,Charlie">>
  /\ EventsOf(1) = <<"LOGIN:12 34 56 78,Charlie", "LOGOUT:12 34 56 78,Charlie">>

\* C13: a session starts only in an iteration that samples the button active
\* while the iteration before it sampled it inactive, and while Idle every
\* such iteration starts one; an iteration that samples the button active
\* directly after one that sampled it active starts nothing, however long the
\* level is held.  Every iteration remembers the level it sampled.
C13_OneShotEdge ==
  [][ /\ (~countdownStarted /\ countdownStarted') <=> (~countdownStarted /\ ~sampled /\ sampled')
      /\ (sampled /\ sampled')
           => (countdownStarted' => countdownStarted) /\ Count(serialOut', "NEW_SESSION") = 0
      /\ edge' = (~sampled /\ sampled')
      /\ buttonWasPressed' = sampled' ]_vars

\* Idle after the first session ran out, the button sampled active in two
\* iterations in a row, and no second session has started.
C13_Witness ==
  /\ sampled /\ ~edge
  /\ ~countdownStarted /\ ~expired
  /\ sessionExpiries = 1
  /\ serialOut = <<>>
  /\ Count(feed, "NEW_SESSION") = 1

(* ------------------- iterations a few milliseconds apart ---------------- *)
\* The same loop observed with iterations 25 or 75 ms apart during the first
\* MaxPollTime milliseconds, and as in Spec from there on.

PollSteps == {25, rfidCheckInterval}

\* Long enough for a card read in those first milliseconds to run through
\* its LED pulse and its cooldown.
PollHorizon == MaxPollTime + rfidPauseDuration + ledBlinkDuration

LoopPoll ==
  \E d \in Steps \cup PollSteps, buttonIsPressed \in BOOLEAN, rd \in ReaderInputs :
    /\ d \in PollSteps => uptime + d <= MaxPollTime
    /\ IterateWithin(PollHorizon, d, buttonIsPressed, rd)

NextPoll == LoopPoll

SpecPoll == Init /\ [][NextPoll]_vars

\* C14: an iteration interrogates the reader exactly if rfidCheckInterval has
\* elapsed since the interrogation before (since power-on for the first one)
\* and the cooldown of the last card read is over, and it then stores its
\* timestamp as that of the latest interrogation; so two interrogations in a
\* row are never less than rfidCheckInterval apart.
C14_PollGate ==
  [][ LET inCooldown == ~rfidReady /\ Elapsed(now', rfidCooldownMillis) < rfidPauseDuration
          elapsed == Elapsed(now', previousRfidCheckMillis) >= rfidCheckInterval
      IN /\ polled' <=> (elapsed /\ ~inCooldown)
         /\ polled' => /\ previousRfidCheckMillis' = now'
                       /\ lastPoll >= 0 => uptime' - lastPoll >= rfidCheckInterval
                       /\ lastRead >= 0 => uptime' - lastRead >= rfidPauseDuration
         /\ ~polled' => /\ outcome' = "None"
                        /\ previousRfidCheckMillis' = previousRfidCheckMillis ]_vars

\* A card lies on the reader 25 ms after an interrogation and is not read.
C14_Witness ==
  /\ ~polled /\ rfidReady
  /\ presented.present /\ presented.readOk
  /\ lastPoll >= 0 /\ uptime - lastPoll = 25
  /\ outcome = "None"

\* C15: an iteration that interrogates the reader and reads a card's serial
\* ends in cooldown (rfidReady false) with rfidCooldownMillis equal to the
\* iteration's timestamp, whichever of Login, Logout and Unauthorized the
\* outcome is; an iteration that reads no card leaves rfidCooldownMillis as
\* it was.
C15_ReadStartsCooldown ==
  [][ /\ (polled' /\ presented'.present /\ presented'.readOk)
           => /\ outcome' \in {"Login", "Logout", "Unauthorized"}
              /\ ~rfidReady'
              /\ rfidCooldownMillis' = now'
      /\ ~(polled' /\ presented'.present /\ presented'.readOk)
           => /\ outcome' = "None"
              /\ rfidCooldownMillis' = rfidCooldownMillis ]_vars

\* A rejected card has just started a cooldown at a time other than 0.
C15_Witness ==
  /\ outcome = "Unauthorized"
  /\ ~rfidReady
  /\ rfidCooldownMillis = now
  /\ now > 0
  /\ \E k \in 1..Len(sessionScans) : getIndexFromUID(sessionScans[k]) # -1

\* The variables an iteration writes from the record t of its result.
EndsAs(t) ==
  /\ previousCountdownMillis' = t.previousCountdownMillis
  /\ remainingSeconds' = t.remainingSeconds
  /\ ledOffMillis' = t.ledOffMillis
  /\ rfidCooldownMillis' = t.rfidCooldownMillis
  /\ previousRefreshMillis' = t.previousRefreshMillis
  /\ previousRfidCheckMillis' = t.previousRfidCheckMillis
  /\ greenLedState' = t.greenLedState
  /\ redLedState' = t.redLedState
  /\ rfidReady' = t.rfidReady
  /\ countdownStarted' = t.countdownStarted
  /\ buttonWasPressed' = t.buttonWasPressed
  /\ insideSession' = t.insideSession
  /\ lcd' = t.lcd
  /\ sevseg' = t.sevseg
  /\ serialOut' = t.serialOut

\* C16 as stated: an iteration that interrogates the reader while a card is
\* detected whose serial cannot be read shows the rejection message and sets
\* the error indicator, as for an unknown card.
C16_FailedReadRejected ==
  (polled /\ presented = ReadFail)
    => /\ lcd = <<"Karte ungueltig", "           ">>
       /\ redLedState = HIGH

\* C16, amended: an iteration that interrogates the reader while a card is
\* detected whose serial cannot be read ends exactly as with no card on the
\* reader: no message, no indicator, no presence change, no line on Serial
\* and no cooldown, so the next interrogation is due one check interval
\* later.
C16_FailedReadSkipped ==
  [][ presented' = ReadFail
      => /\ EndsAs(LoopBody(Globals, now', sampled', NoCard))
         /\ outcome' = "None"
         /\ polled' => /\ rfidReady'
                       /\ rfidCooldownMillis' = rfidCooldownMillis
                       /\ previousRfidCheckMillis' = now'
                       /\ ScanLines(serialOut') = <<>> ]_vars

\* A failed read in an interrogating iteration, with the red LED off and the
\* LCD still on the prompt, and the reader ready.
C16_Witness ==
  /\ polled /\ presented = ReadFail
  /\ outcome = "None"
  /\ rfidReady
  /\ redLedState = LOW
  /\ lcd = ReadyPrompt
  /\ uptime > 0

(* ------------------------ an identifier of no bytes --------------------- *)
\* The loop of lines 551-556 builds uidString from mfrc522.uid.size bytes; with
\* a size of 0 it is the empty String.

EmptyRead == [present |-> TRUE, readOk |-> TRUE, uid |-> <<>>]

LoopAnyUid ==
  \E d \in Steps, buttonIsPressed \in BOOLEAN, rd \in ReaderInputs \cup {EmptyRead} :
    Iterate(d, buttonIsPressed, rd)

NextAnyUid == LoopAnyUid

SpecAnyUid == Init /\ [][NextAnyUid]_vars

\* C17: an iteration that reads an identifier of no bytes treats it as an
\* unknown card: it finds no registry entry for it, leaves every presence
\* flag Outside that was Outside and writes no LOGIN or LOGOUT line.
C17_EmptyIdentifierRejected ==
  (polled /\ presented = EmptyRead)
    => /\ getIndexFromUID(readUid) = -1
       /\ outcome = "Unauthorized"
       /\ \A i \in 0..(numCards - 1) : insideSession[i] => insideBefore[i]
       /\ ScanLines(serialOut) = <<>>

\* C18: the iteration in which the session goes from Active to Idle leaves
\* every presence flag as it found it, but for the flag of a registered card
\* it reads itself; and a flag goes from Inside to Outside only in an
\* iteration that starts a session or reads that flag's card.
C18_ExpiryKeepsFlags ==
  [][ LET idx == getIndexFromUID(readUid')
          matched == outcome' # "None" /\ idx # -1
      IN /\ (countdownStarted /\ ~countdownStarted')
            => /\ expired'
               /\ insideSession' = IF matched
                                   THEN [insideSession EXCEPT ![idx] = ~insideSession[idx]]
                                   ELSE insideSession
         /\ \A i \in 0..(numCards - 1) :
              (insideSession[i] /\ ~insideSession'[i])
                => \/ ~countdownStarted /\ countdownStarted'
                   \/ outcome' = "Logout" /\ idx = i ]_vars

\* The session has just run out with two cards Inside, and no card was read.
C18_Witness ==
  /\ expired /\ ~countdownStarted
  /\ outcome = "None"
  /\ insideSession[0] /\ insideSession[1]
  /\ insideSession = insideBefore

\* C20: remainingSeconds goes down only in an iteration that begins Active
\* and remains Active, and then by one; an iteration that begins Idle leaves
\* it as it is unless it starts a session, which sets it to the full length,
\* whatever time has passed and whatever the button and the reader deliver.
C20_DecrementOnlyActive ==
  [][ /\ remainingSeconds' < remainingSeconds
           => /\ countdownStarted /\ countdownStarted'
              /\ remainingSeconds' = remainingSeconds - 1
      /\ ~countdownStarted
           => remainingSeconds' = IF countdownStarted'
                                  THEN initialCountdownSeconds
                                  ELSE remainingSeconds
      /\ remainingSeconds' \in 0..initialCountdownSeconds ]_vars

\* Idle again after the first session ran out: a later iteration, with the
\* button held and a card read, has left remaining at 0.
C20_Witness ==
  /\ ~countdownStarted /\ ~expired
  /\ sessionExpiries = 1
  /\ uptime > sessionStart + initialCountdownSeconds * countdownInterval
  /\ outcome # "None"
  /\ sampled
  /\ remainingSeconds = 0

(* ------------------------- the clock keeps advancing -------------------- *)
\* loop() is called again and again and millis() keeps growing: of the
\* iterations, those that find the clock advanced keep happening.  A tick is
\* due countdownInterval after the last one and iterations are at most that
\* far apart on multiples of ledBlinkDuration, so a tick comes at most
\* ledBlinkDuration late, and the iteration after the last tick ends the
\* session; LiveHorizon is the uptime by which every session started up to
\* LiveStartBy has ended.

LiveHorizon ==
  LiveStartBy + initialCountdownSeconds * (countdownInterval + ledBlinkDuration)
    + ledBlinkDuration

\* What the reader delivers here: nothing, a registered card, an unknown one.
LiveInputs ==
  {NoCard} \cup {[present |-> TRUE, readOk |-> TRUE, uid |-> u] :
                   u \in {<<51, 249, 205, 166>>, <<131, 157, 186, 6>>}}

Advance ==
  \E d \in Steps \ {0}, buttonIsPressed \in BOOLEAN, rd \in LiveInputs :
    IterateWithin(LiveHorizon, d, buttonIsPressed, rd)

Stay ==
  \E buttonIsPressed \in BOOLEAN, rd \in LiveInputs :
    IterateWithin(LiveHorizon, 0, buttonIsPressed, rd)

NextLive == Advance \/ Stay

SpecLive == Init /\ [][NextLive]_vars /\ WF_vars(Advance)

\* C19: every session started up to LiveStartBy comes to an iteration that
\* ends it, with the session Idle, "----" on the 7-segment display and the
\* start prompt on the LCD (or, over it, the message of a card read in that
\* same iteration), whatever the button and the reader deliver meanwhile.
C19_SessionEnds ==
  (countdownStarted /\ sessionStart <= LiveStartBy)
    ~> (/\ expired /\ ~countdownStarted
        /\ sevseg = setChars("----")
        /\ lcd = ReadyPrompt \/ outcome # "None")

\* A session started at LiveStartBy has ended a tick later than its nominal
\* length, after card reads.
C19_Witness ==
  /\ expired /\ ~countdownStarted
  /\ sessionStart = LiveStartBy
  /\ uptime > sessionStart + initialCountdownSeconds * countdownInterval
  /\ sessionScans # <<>>
  /\ sevseg = setChars("----")
  /\ lcd = ReadyPrompt

\* C22: an iteration that begins Active does one of three things to
\* countdownStarted, remainingSeconds and previousCountdownMillis: a tick
\* (remaining one less, the timestamp set to the current one), the session
\* end (countdownStarted false, the other two as they were) or nothing; which
\* of them depends on the clock and on remaining only, so the three end as
\* they would with the button released and no card on the reader, whatever
\* the button, the reader, the LEDs, the cooldown and the refresh do.
C22_ActiveSessionRecord ==
  [][ countdownStarted
      => LET quiet == LoopBody(Globals, now', FALSE, NoCard)
             due == Elapsed(now', previousCountdownMillis) >= countdownInterval
         IN /\ countdownStarted' = quiet.countdownStarted
            /\ remainingSeconds' = quiet.remainingSeconds
            /\ previousCountdownMillis' = quiet.previousCountdownMillis
            /\ IF remainingSeconds > 0 /\ due
               THEN /\ countdownStarted'
                    /\ remainingSeconds' = remainingSeconds - 1
                    /\ previousCountdownMillis' = now'
               ELSE /\ countdownStarted' = (remainingSeconds > 0)
                    /\ remainingSeconds' = remainingSeconds
                    /\ previousCountdownMillis' = previousCountdownMillis ]_vars

\* Active before and after an iteration that sampled a press edge and logged
\* a card out: remaining and the tick timestamp are what they were.
C22_Witness ==
  /\ countdownStarted
  /\ edge
  /\ outcome = "Logout"
  /\ sessionStart >= 0 /\ sessionStart < uptime
  /\ tickAt < uptime
  /\ remainingSeconds > 0

\* C23: every presence flag is Outside after setup(), and an iteration changes
\* the flags in two ways only: a session start sets them all to Outside, and
\* the read of a registered card then turns that card's flag over; an
\* iteration that does neither (whatever ticks, runs out, times out, ends a
\* cooldown, rejects a card or refreshes in it) leaves every flag as it was.
C23_FlagLifecycle ==
  /\ \A i \in 0..(numCards - 1) : ~insideSession[i]
  /\ [][ LET start == ~countdownStarted /\ countdownStarted'
             idx == getIndexFromUID(readUid')
             matched == outcome' \in {"Login", "Logout"}
         IN /\ (~start /\ ~matched) => insideSession' = insideSession
            /\ \A i \in 0..(numCards - 1) :
                 insideSession'[i] # insideSession[i]
                   => \/ start
                      \/ matched /\ idx = i /\ polled' /\ presented'.readOk ]_vars

\* A flag set by a login has stayed Inside over a tick, the LED timeout, the
\* end of the cooldown and the rejection of an unknown card.
C23_Witness ==
  /\ insideSession[0] /\ insideBefore[0]
  /\ countdownStarted
  /\ remainingSeconds < initialCountdownSeconds
  /\ greenLedState = LOW
  /\ outcome = "Unauthorized"
  /\ Count(sessionScans, authorizedUIDs[0]) = 1

\* C24: the green and the red LED are never on together; an iteration leaves
\* the green LED on and the red one off exactly if it read a registered card
\* (Login and Logout alike) and the red LED on and the green one off exactly
\* if it read an unknown card, no other iteration switches an LED on, and
\* each of these reads stores the iteration's timestamp in ledOffMillis, the
\* one timestamp both LEDs share, which no other iteration writes.
C24_Indicators ==
  /\ ~(greenLedState = HIGH /\ redLedState = HIGH)
  /\ [][ /\ ~(greenLedState' = HIGH /\ redLedState' = HIGH)
         /\ outcome' \in {"Login", "Logout"}
              => greenLedState' = HIGH /\ redLedState' = LOW /\ ledOffMillis' = now'
         /\ outcome' = "Unauthorized"
              => redLedState' = HIGH /\ greenLedState' = LOW /\ ledOffMillis' = now'
         /\ outcome' = "None"
              => /\ greenLedState' = HIGH => greenLedState = HIGH
                 /\ redLedState' = HIGH => redLedState = HIGH
                 /\ ledOffMillis' = ledOffMillis ]_vars

\* The red LED is on for an unknown card read after a logout had lit the
\* green one.
C24_Witness ==
  /\ outcome = "Unauthorized"
  /\ redLedState = HIGH /\ greenLedState = LOW
  /\ ledOffMillis = now /\ now > 0
  /\ \E i \in Registered : Count(sessionScans, authorizedUIDs[i]) = 2

\* C25: an LED switched on by the card read at uptime t (lastRead) is on at
\* the end of every later iteration that comes less than ledBlinkDuration
\* after t and off at the end of the first iteration that comes
\* ledBlinkDuration or more after t, unless that iteration reads a card and
\* switches an LED on anew; so an LED that is on was switched on less than
\* ledBlinkDuration ago.
C25_IndicatorPulse ==
  /\ greenLedState = LOW /\ redLedState = LOW
  /\ [][ /\ (greenLedState' = HIGH \/ redLedState' = HIGH)
              => lastRead' >= 0 /\ uptime' - lastRead' < ledBlinkDuration
         /\ (lastRead >= 0 /\ uptime' - lastRead < ledBlinkDuration)
              => /\ outcome' = "None"
                 /\ greenLedState' = greenLedState
                 /\ redLedState' = redLedState
         /\ (lastRead >= 0 /\ uptime' - lastRead >= ledBlinkDuration /\ outcome' = "None")
              => greenLedState' = LOW /\ redLedState' = LOW ]_vars

\* The green LED is still on in an iteration 75 ms after the login that lit it.
C25_Witness ==
  /\ greenLedState = HIGH
  /\ outcome = "None"
  /\ lastRead >= 0 /\ uptime - lastRead = rfidCheckInterval

(* --------------------------- millis() wraps ----------------------------- *)
\* The sketch has been idle since power-on, the latest iteration ran WrapLead
\* milliseconds before millis() wraps to 0; the loop goes on from there.

InitWrap == IdleSince(ClockModulus - WrapLead, ClockModulus - WrapLead, 0)

SpecWrap == InitWrap /\ [][Next]_vars

\* C26: each of the five timers fires in an iteration exactly if the time
\* that has really passed since its timestamp was stored (uptime, which does
\* not wrap) has reached its period, also when the timestamp was stored
\* before millis() wrapped and the iteration comes after: the countdown ticks
\* (while Active with time remaining), the LEDs go off, the cooldown ends,
\* the reader is interrogated (while ready), the display is refreshed.
C26_TimersAcrossWrap ==
  [][ LET readyNow == rfidReady \/ uptime' - lastRead >= rfidPauseDuration
      IN /\ (countdownStarted /\ remainingSeconds > 0)
              => (remainingSeconds' = remainingSeconds - 1
                    <=> uptime' - tickAt >= countdownInterval)
         /\ ((greenLedState = HIGH \/ redLedState = HIGH) /\ outcome' = "None")
              => ((greenLedState' = LOW /\ redLedState' = LOW)
                    <=> uptime' - lastRead >= ledBlinkDuration)
         /\ ~rfidReady
              => ((rfidReady' \/ outcome' # "None")
                    <=> uptime' - lastRead >= rfidPauseDuration)
         /\ polled' <=> (readyNow /\ uptime' - lastPoll >= rfidCheckInterval)
         /\ IF uptime' - refreshAt >= refreshInterval
            THEN previousRefreshMillis' = now' /\ refreshAt' = uptime'
            ELSE previousRefreshMillis' = previousRefreshMillis
                   /\ refreshAt' = refreshAt ]_vars

\* After the wrap: a tick whose session started before the wrap, and the
\* reader ready again after a card read before the wrap.
C26_Witness ==
  /\ uptime >= WrapLead /\ now < WrapLead
  /\ sessionStart >= 0 /\ sessionStart < WrapLead
  /\ remainingSeconds = initialCountdownSeconds - 1
  /\ tickAt = uptime
  /\ lastRead >= 0 /\ lastRead < WrapLead
  /\ rfidReady

\* C27 as stated: no iteration waits.
C27_NeverBlocks == blocked = 0

\* C27, amended: an iteration waits only in delay(5), once after each of the
\* LCD writes it makes: the session start, the session end, the end of a
\* cooldown while Idle and a card read; an iteration that makes none of these
\* runs through without waiting, and no iteration waits for the button or for
\* a card.
C27_BlocksOnlyAfterLcdWrites ==
  [][ LET start == ~countdownStarted /\ countdownStarted'
          prompt == /\ ~rfidReady
                    /\ Elapsed(now', rfidCooldownMillis) >= rfidPauseDuration
                    /\ ~countdownStarted'
          read == outcome' # "None"
          Ms(b) == IF b THEN 5 ELSE 0
      IN blocked' = Ms(start) + Ms(expired') + Ms(prompt) + Ms(read) ]_vars

\* An iteration that ended the session, ended a cooldown and read a card has
\* waited three times.
C27_Witness ==
  /\ expired
  /\ outcome # "None"
  /\ blocked = 15

\* C28: the sections of an iteration take effect in the order Button Logic,
\* Countdown, LED Off Timing, RFID Cooldown, RFID Reading, 7-Segment Refresh.
\* A session started in an iteration is not ticked in it; the LEDs of a card
\* read in an iteration are not switched off in it; a cooldown that ends in
\* an iteration lets the same iteration interrogate the reader; a session
\* that runs out in an iteration is seen as Idle by the cooldown section of
\* the same iteration; and the LCD ends the iteration with the message of the
\* card it read, whatever prompt the session end or the end of the cooldown
\* wrote before in the same iteration.
C28_SectionOrder ==
  [][ LET start == ~countdownStarted /\ countdownStarted'
          cooled == ~rfidReady /\ Elapsed(now', rfidCooldownMillis) >= rfidPauseDuration
      IN /\ start => remainingSeconds' = initialCountdownSeconds /\ ~expired'
         /\ outcome' \in {"Login", "Logout"} => greenLedState' = HIGH
         /\ outcome' = "Unauthorized" => redLedState' = HIGH
         /\ (cooled /\ Elapsed(now', previousRfidCheckMillis) >= rfidCheckInterval)
              => polled'
         /\ (cooled /\ expired' /\ outcome' = "None") => lcd' = ReadyPrompt /\ blocked' = 10
         /\ outcome' = "Login" => lcd' = <<"Willkommen", names[getIndexFromUID(readUid')]>>
         /\ outcome' = "Logout" => lcd' = <<"Auf Wiedersehen", names[getIndexFromUID(readUid')]>>
         /\ outcome' = "Unauthorized" => lcd' = <<"Karte ungueltig", "           ">>
         /\ (expired' /\ outcome' = "None") => lcd' = ReadyPrompt ]_vars

\* The session ran out and a card was logged in within one iteration: the
\* LCD greets the card holder.
C28_Witness ==
  /\ expired
  /\ outcome = "Login"
  /\ lcd[1] = "Willkommen"
  /\ ~countdownStarted

\* The timestamps the sketch keeps.
Timestamps ==
  <<previousCountdownMillis, ledOffMillis, rfidCooldownMillis,
    previousRfidCheckMillis, previousRefreshMillis>>

\* C29: an iteration reads millis() once, into currentMillis: every timestamp
\* it writes is that value, also after a delay() earlier in the same
\* iteration, so each timestamp ends the iteration either as it was or equal
\* to the clock value the iteration read, and the timers are decided on that
\* value.
C29_OneClockRead ==
  [][ /\ \A k \in 1..Len(Timestamps) :
           Timestamps'[k] = Timestamps[k] \/ Timestamps'[k] = now'
      /\ (~countdownStarted /\ countdownStarted') => previousCountdownMillis' = now'
      /\ outcome' # "None" => rfidCooldownMillis' = now' /\ ledOffMillis' = now'
      /\ polled' => previousRfidCheckMillis' = now'
      /\ polled' <=> /\ rfidReady \/ Elapsed(now', rfidCooldownMillis) >= rfidPauseDuration
                     /\ Elapsed(now', previousRfidCheckMillis) >= rfidCheckInterval ]_vars

\* An iteration started a session, waited, read a card and waited again: all
\* five timestamps hold the one clock value it read.
C29_Witness ==
  /\ Started
  /\ outcome # "None"
  /\ blocked = 10
  /\ now > 0
  /\ \A k \in 1..Len(Timestamps) : Timestamps[k] = now

\* C30: the reader is interrogated while Idle as while Active; an iteration
\* that begins and ends Idle and is offered a registered card when the
\* interrogation is due reads it, turns that card's flag over and writes its
\* LOGIN or LOGOUT line, and the logger stores the name of such a LOGIN.
C30_ReadsWhileIdle ==
  [][ LET idx == getIndexFromUID(UidString(presented'.uid))
          due == /\ rfidReady \/ Elapsed(now', rfidCooldownMillis) >= rfidPauseDuration
                 /\ Elapsed(now', previousRfidCheckMillis) >= rfidCheckInterval
      IN (~countdownStarted /\ ~countdownStarted')
           => /\ polled' = due
              /\ (due /\ presented'.present /\ presented'.readOk /\ idx # -1)
                   => /\ insideSession'[idx] = ~insideSession[idx]
                      /\ serialOut' = << (IF insideSession[idx] THEN "LOGOUT:" ELSE "LOGIN:")
                                           \o UidString(presented'.uid) \o "," \o names[idx] >>
                      /\ ~insideSession[idx] => names[idx] \in StoredNames(store') ]_vars

\* After the session has run out a card is logged in while Idle and its name
\* reaches the logger's table.
C30_Witness ==
  /\ ~countdownStarted /\ ~expired
  /\ sessionExpiries = 1
  /\ outcome = "Login"
  /\ serialOut = <<LoginLine(0)>>
  /\ insideSession[0]
  /\ names[0] \in StoredNames(store)
  /\ sessionScans = <<authorizedUIDs[0]>>

\* C21: in every reachable state remainingSeconds is at least 0 and at most
\* initialCountdownSeconds.
C21_RemainingInRange ==
  /\ remainingSeconds >= 0
  /\ remainingSeconds <= initialCountdownSeconds

\* Still Active with remaining at 0 after the last tick, early enough for an
\* iteration a whole countdown interval later, in which no tick may be taken.
C21_Witness ==
  /\ countdownStarted
  /\ remainingSeconds = 0
  /\ tickAt > sessionStart
  /\ LiveHorizon - tickAt >= countdownInterval

\* The session length the sketch is built with (line 393), 95 minutes.
sketchCountdownSeconds == 5700

\* Every value remainingSeconds takes in the sketch is shown as a number from
\* 0 to 9500 whose last two digits are seconds.
ReadoutInRange ==
  \A r \in 0..sketchCountdownSeconds :
    /\ TimeNumber(r) \in 0..9500
    /\ TimeNumber(r) % 100 < 60
    /\ TimeNumber(r) % 100 = r % 60
    /\ TimeNumber(r) \div 100 = r \div 60

\* C31: at the end of every iteration the 7-segment display holds "----"
\* exactly if the session is Idle, and while Active it holds the number
\* (remaining / 60) * 100 + remaining % 60 of the current remainingSeconds,
\* which lies between 0 and 9500 and has last two digits below 60.
C31_Readout ==
  /\ ReadoutInRange
  /\ (sevseg = setChars("----")) <=> ~countdownStarted
  /\ countdownStarted
       => /\ sevseg = setNumber((remainingSeconds \div 60) * 100 + (remainingSeconds % 60))
          /\ sevseg.number \in 0..9500
          /\ sevseg.number % 100 < 60

\* Active after a tick: the display holds the number of the decremented
\* remainingSeconds.
C31_Witness ==
  /\ countdownStarted
  /\ tickAt = uptime /\ tickAt > sessionStart
  /\ remainingSeconds = initialCountdownSeconds - 1
  /\ sevseg = setNumber(TimeNumber(initialCountdownSeconds - 1))
  /\ sevseg # setNumber(TimeNumber(initialCountdownSeconds))

\* C32: an iteration takes remainingSeconds down by one at most, and a tick
\* stores the iteration's own timestamp, not the old one plus an interval, so
\* the next tick comes a whole interval after a late one: every decrement is
\* at least one interval after the decrement before it (the first after the
\* session start), the decrements made lie at least that many intervals
\* after the start, and the session goes from Active to Idle no earlier than
\* the session length times the interval after its start.
C32_LostTimeNotRecovered ==
  /\ [](sessionStart >= 0
          => /\ (initialCountdownSeconds - remainingSeconds) * countdownInterval
                  <= tickAt - sessionStart
             /\ ~countdownStarted
                  => uptime - sessionStart >= initialCountdownSeconds * countdownInterval)
  /\ [][ LET start == ~countdownStarted /\ countdownStarted'
         IN /\ ~start => remainingSeconds' \in {remainingSeconds, remainingSeconds - 1}
            /\ (~start /\ remainingSeconds' = remainingSeconds - 1)
                 => /\ previousCountdownMillis' = now'
                    /\ tickAt' = uptime'
                    /\ uptime' - tickAt >= countdownInterval
            /\ (countdownStarted /\ ~countdownStarted')
                 => uptime' - sessionStart >= initialCountdownSeconds * countdownInterval ]_vars

\* The session has run out after a tick that came half an interval late: it
\* has lasted longer than its nominal length.
C32_Witness ==
  /\ expired /\ ~countdownStarted
  /\ tickAt - sessionStart > initialCountdownSeconds * countdownInterval
  /\ uptime - sessionStart > initialCountdownSeconds * countdownInterval

\* C33: every iteration, Active or Idle, stores the button level it sampled
\* in buttonWasPressed.  While the button has been sampled active in every
\* iteration since one that began Active, no session starts, also after that
\* session has run out; and the iteration in which the session runs out
\* starts none, a press edge sampled in it included.
C33_HeldButtonAcrossExpiry ==
  [][ LET start == ~countdownStarted /\ countdownStarted'
      IN /\ buttonWasPressed' = sampled'
         /\ heldSinceActive' => /\ ~start
                                /\ Count(serialOut', "NEW_SESSION") = 0
                                /\ buttonWasPressed'
         /\ expired' => /\ ~countdownStarted'
                        /\ Count(serialOut', "NEW_SESSION") = 0
                        /\ sampled' => heldSinceActive'
         /\ start => ~sampled /\ sampled' /\ ~heldSinceActive ]_vars

\* Idle, an iteration after the one in which the session ran out: the button,
\* held since the session was Active, is still sampled active and no second
\* session has started.
C33_Witness ==
  /\ heldSinceActive
  /\ ~countdownStarted /\ ~expired
  /\ sessionExpiries = 1
  /\ Count(feed, "NEW_SESSION") = 1
  /\ uptime > sessionStart + initialCountdownSeconds * countdownInterval

\* C34: at the end of every iteration, if the session is Idle and the reader
\* is not in cooldown (rfidReady is set; no card has been read yet or the
\* latest read lies rfidPauseDuration or more back), the LCD shows
\* "System Ready" / "Press button...".
C34_IdlePrompt ==
  /\ rfidReady <=> (lastRead < 0 \/ uptime - lastRead >= rfidPauseDuration)
  /\ (~countdownStarted /\ rfidReady) => lcd = <<"System Ready", "Press button...">>

\* No session has ever run; a card was read while Idle, its message has been
\* on the LCD, and the end of the cooldown has put the prompt back.
C34_Witness ==
  /\ sessionStart < 0
  /\ ~countdownStarted /\ rfidReady
  /\ lastRead >= 0 /\ uptime - lastRead >= rfidPauseDuration
  /\ lcd = <<"System Ready", "Press button...">>

C36_ReadFindsIndicatorsOff ==
  /\ ledBlinkDuration <= rfidPauseDuration
  /\ [](/\ ledOffMillis = rfidCooldownMillis
        /\ (greenLedState = HIGH \/ redLedState = HIGH) => ~rfidReady)
  /\ [][ outcome' # "None"
         => LET atRead == LedOff(Countdown(ButtonLogic(Globals, now', sampled'), now'), now')
            IN /\ atRead.greenLedState = LOW
               /\ atRead.redLedState = LOW
               /\ ledOffMillis' = now'
               /\ rfidCooldownMillis' = now' ]_vars

\* The earliest second read there can be: a registered card lit the green LED
\* and an unknown card is read exactly rfidPauseDuration later.
C36_Witness ==
  /\ outcome = "Unauthorized"
  /\ Len(sessionScans) = 2
  /\ getIndexFromUID(sessionScans[1]) # -1
  /\ sessionStart < 0
  /\ uptime = ledBlinkDuration + rfidPauseDuration
  /\ redLedState = HIGH /\ greenLedState = LOW

\* C37: with the logger fed every line the sketch writes (its table empty at
\* power-on, emptied by NEW_SESSION, a LOGIN line's name inserted if absent),
\* in every reachable state the table holds the name of every identity whose
\* presence flag is Inside.
C37_InsideIsLogged ==
  \A i \in 0..(numCards - 1) :
    insideSession[i] => \E k \in 1..Len(store) : store[k].name = names[i]

\* A session has just started, which emptied the table with Charlie's row of
\* before the start in it and reset Charlie's flag, and Alice has logged in
\* in the same iteration: Alice alone is Inside and in the table.
C37_Witness ==
  /\ Started
  /\ insideBefore[1] /\ ~insideSession[1]
  /\ outcome = "Login" /\ insideSession[0]
  /\ store = <<[name |-> "Alice"]>>

(* ---------------- the clock keeps advancing, first seconds -------------- *)
\* As SpecLive, over the first MaxTime milliseconds: long enough for a card
\* read, its LED pulse, its cooldown and the read after it.

AdvanceShort ==
  \E d \in Steps \ {0}, buttonIsPressed \in BOOLEAN, rd \in LiveInputs :
    Iterate(d, buttonIsPressed, rd)

StayShort ==
  \E buttonIsPressed \in BOOLEAN, rd \in LiveInputs :
    Iterate(0, buttonIsPressed, rd)

NextShort == AdvanceShort \/ StayShort

SpecLiveShort == Init /\ [][NextShort]_vars /\ WF_vars(AdvanceShort)

\* The uptimes at which iterations run when the clock advances by the periods
\* of Steps: the multiples of ledBlinkDuration up to MaxTime.
ShortTimes == {k * ledBlinkDuration : k \in 0..(MaxTime \div ledBlinkDuration)}

\* C38: while the clock keeps advancing and loop() keeps being called, after
\* a card read at uptime t the reader leaves the cooldown: an iteration comes
\* that ends with rfidReady set or that has read a card anew, which takes the
\* reader ready; and the LEDs lit by that read go off: an iteration comes
\* that ends with both LEDs off or that has lit one anew after switching
\* them off.  Stated for the reads early enough for the explored time to
\* hold the end of their cooldown and of their pulse.
C38_CooldownAndPulseEnd ==
  /\ [](uptime \in ShortTimes /\ lastRead \in ShortTimes \cup {-1})
  /\ \A t \in ShortTimes :
       /\ (lastRead = t /\ t <= MaxTime - rfidPauseDuration /\ ~rfidReady)
            ~> (rfidReady \/ lastRead > t)
       /\ (/\ lastRead = t /\ t <= MaxTime - ledBlinkDuration
           /\ greenLedState = HIGH \/ redLedState = HIGH)
            ~> ((greenLedState = LOW /\ redLedState = LOW) \/ lastRead > t)

\* The reader is ready again and both LEDs are off, a cooldown after a card
\* was rejected during a session.
C38_Witness ==
  /\ rfidReady
  /\ greenLedState = LOW /\ redLedState = LOW
  /\ lastRead > sessionStart /\ sessionStart >= 0
  /\ uptime - lastRead >= rfidPauseDuration
  /\ getIndexFromUID(sessionScans[Len(sessionScans)]) = -1
  /\ lcd = <<"Karte ungueltig", "           ">>

\* C39: while the reader is in cooldown previousRfidCheckMillis is not
\* written: it keeps the value the card read stored, the same as
\* rfidCooldownMillis, also in iterations that come rfidCheckInterval or more
\* after the read.  rfidPauseDuration is not shorter than rfidCheckInterval,
\* so the iteration in which the cooldown ends finds the check interval
\* elapsed as well and interrogates the reader.
C39_PollAtCooldownEnd ==
  /\ rfidPauseDuration >= rfidCheckInterval
  /\ [](~rfidReady => previousRfidCheckMillis = rfidCooldownMillis)
  /\ [][ LET cooled == ~rfidReady /\ Elapsed(now', rfidCooldownMillis) >= rfidPauseDuration
         IN /\ (~rfidReady /\ ~cooled)
                 => /\ ~polled'
                    /\ ~rfidReady'
                    /\ previousRfidCheckMillis' = previousRfidCheckMillis
                    /\ lastPoll' = lastPoll
            /\ cooled
                 => /\ Elapsed(now', previousRfidCheckMillis) >= rfidCheckInterval
                    /\ polled'
                    /\ previousRfidCheckMillis' = now'
                    /\ lastPoll' = uptime' ]_vars

\* A card was read rfidCheckInterval after power-on; the iteration exactly
\* rfidPauseDuration later has ended the cooldown and interrogated the reader.
C39_Witness ==
  /\ lastRead = rfidCheckInterval
  /\ uptime = lastRead + rfidPauseDuration
  /\ polled /\ lastPoll = uptime
  /\ previousRfidCheckMillis = now
  /\ rfidReady

====
